---- MODULE Spec2Model ----
(***************************************************************************)
(* shed's LibCST codemods (src/src/shed/_codemods.py): _run_codemods and   *)
(* the ShedFixers rule set.                                                *)
(*                                                                         *)
(* A syntax tree is a record with a kind field k and the attributes of the *)
(* LibCST node of that kind.  Two attributes are renamed: the string that  *)
(* LibCST calls Name.value / Integer.value / SimpleString.value is the     *)
(* field id, and a SubscriptElement is represented by its slice (an Index  *)
(* with a value, or a Slice), so the source's elt.slice.value is           *)
(* elt.value here.  Whitespace and commas are not represented.             *)
(***************************************************************************)
EXTENDS Integers, Sequences, FiniteSets, TLC

VARIABLES code, min_version, pc, nparse, mod, steps, tree, updated, retval,
          prev, ri, applied, out, err, passno, out1

vars == <<code, min_version, pc, nparse, mod, steps, tree, updated, retval,
          prev, ri, applied, out, err, passno, out1>>

----------------------------------------------------------------------------
(* Nodes *)

Nothing == [k |-> "Nothing"]
RemovalSentinel == [k |-> "RemovalSentinel"]
Raised(e) == [k |-> "RAISE", id |-> e]
IsRaise(x) == x.k = "RAISE"

Name(id) == [k |-> "Name", id |-> id]
Integer(id) == [k |-> "Integer", id |-> id]
SimpleString(id) == [k |-> "SimpleString", id |-> id]
Tuple(elements) == [k |-> "Tuple", elements |-> elements]
Arg(value, keyword, star) ==
    [k |-> "Arg", value |-> value, keyword |-> keyword, star |-> star]
PosArg(value) == Arg(value, "", "")
Call(func, args, lpar, brk) ==
    [k |-> "Call", func |-> func, args |-> args, lpar |-> lpar, brk |-> brk]
PlainCall(f, args) == Call(Name(f), args, 0, FALSE)
CompFor(target, iter, ifs, inner_for_in, asynchronous) ==
    [k |-> "CompFor", target |-> target, iter |-> iter, ifs |-> ifs,
     inner_for_in |-> inner_for_in, asynchronous |-> asynchronous]
Comp(kind, elt, for_in) == [k |-> kind, elt |-> elt, for_in |-> for_in]
Index(value) == [k |-> "Index", value |-> value]
Slice(lower, upper, step) ==
    [k |-> "Slice", lower |-> lower, upper |-> upper, step |-> step]
Subscript(value, slice) == [k |-> "Subscript", value |-> value, slice |-> slice]
BinaryOperation(left, operator, right, lpar) ==
    [k |-> "BinaryOperation", left |-> left, operator |-> operator,
     right |-> right, lpar |-> lpar]
UnaryOperation(operator, expression) ==
    [k |-> "UnaryOperation", operator |-> operator, expression |-> expression]
ComparisonTarget(operator, comparator) ==
    [k |-> "ComparisonTarget", operator |-> operator, comparator |-> comparator]
Comparison(left, comparisons) ==
    [k |-> "Comparison", left |-> left, comparisons |-> comparisons]

Expr(value) == [k |-> "Expr", value |-> value]
AnnAssign(annotation, value) ==
    [k |-> "AnnAssign", annotation |-> annotation, value |-> value]
AssertStmt(test, msg) == [k |-> "Assert", test |-> test, msg |-> msg]
RaiseStmt(exc, cause) == [k |-> "Raise", exc |-> exc, cause |-> cause]

IsName(n, id) == n.k = "Name" /\ n.id = id
Min(S) == CHOOSE x \in S : \A y \in S : x <= y

----------------------------------------------------------------------------
(* ast.literal_eval on the code of a node, as the rules use it: "raise"    *)
(* when the text is not a literal, else the truth value of the literal.    *)

RECURSIVE literal_eval(_)
literal_eval(n) ==
    CASE n.k = "Name" ->
           IF n.id = "True" THEN "truthy"
           ELSE IF n.id \in {"False", "None"} THEN "falsy" ELSE "raise"
      [] n.k = "Integer" -> IF n.id = "0" THEN "falsy" ELSE "truthy"
      [] n.k = "SimpleString" -> IF n.id = "\"\"" THEN "falsy" ELSE "truthy"
      [] n.k = "Tuple" ->
           IF \E i \in 1..Len(n.elements) : literal_eval(n.elements[i]) = "raise"
           THEN "raise"
           ELSE IF Len(n.elements) = 0 THEN "falsy" ELSE "truthy"
      [] n.k = "UnaryOperation" ->
           IF n.operator = "Minus" /\ n.expression.k = "Integer"
           THEN literal_eval(n.expression) ELSE "raise"
      [] OTHER -> "raise"

----------------------------------------------------------------------------
(* The rewrite functions of ShedFixers.  Each takes the updated node it is *)
(* handed and returns the replacement, or Raised(e) where the Python code  *)
(* raises e.                                                               *)

\* @m.call_if_inside(m.Raise(exc=m.Name(value="NotImplemented")))
leave_Name(updated_node) == [updated_node EXCEPT !.id = "NotImplementedError"]

\* A faulty variant of leave_Assert: the message is not carried over.
leave_Assert_dropping_msg(updated_node) ==
    LET test_literal == literal_eval(updated_node.test) IN
    IF test_literal = "raise" THEN updated_node
    ELSE IF test_literal = "truthy" THEN RemovalSentinel
    ELSE RaiseStmt(Name("AssertionError"), Nothing)

leave_Assert(updated_node) ==
    LET test_literal == literal_eval(updated_node.test) IN
    IF test_literal = "raise" THEN updated_node
    ELSE IF test_literal = "truthy" THEN RemovalSentinel
    ELSE IF updated_node.msg = Nothing
         THEN RaiseStmt(Name("AssertionError"), Nothing)
    ELSE RaiseStmt(PlainCall("AssertionError", <<PosArg(updated_node.msg)>>),
                   Nothing)

Trigger_convert_optional_literal_to_literal_none(o) ==
    /\ o.k = "Subscript"
    /\ IsName(o.value, "Optional")
    /\ Len(o.slice) = 1
    /\ o.slice[1].k = "Index"
    /\ o.slice[1].value.k = "Subscript"
    /\ IsName(o.slice[1].value.value, "Literal")

convert_optional_literal_to_literal_none(updated_node) ==
    IF Len(updated_node.slice) = 0 THEN Raised("IndexError")
    ELSE IF "value" \notin DOMAIN updated_node.slice[1]
         THEN Raised("AttributeError")
    ELSE LET expr == updated_node.slice[1].value IN
         IF "slice" \notin DOMAIN expr THEN Raised("AttributeError")
         ELSE [expr EXCEPT !.slice = Append(expr.slice, Index(Name("None")))]

Trigger_convert_none_cmp(o) ==
    /\ o.k = "ComparisonTarget"
    /\ IsName(o.comparator, "None")
    /\ o.operator = "Equal"

convert_none_cmp(updated_node) == [updated_node EXCEPT !.operator = "Is"]

Trigger_replace_not_in_condition(o) ==
    /\ o.k = "UnaryOperation"
    /\ o.operator = "Not"
    /\ o.expression.k = "Comparison"
    /\ Len(o.expression.comparisons) = 1
    /\ o.expression.comparisons[1].operator = "In"

replace_not_in_condition(updated_node) ==
    LET expr == updated_node.expression IN
    IF expr.k # "Comparison" THEN Raised("Exception")
    ELSE Comparison(expr.left,
                    <<[expr.comparisons[1] EXCEPT !.operator = "NotIn"]>>)

Trigger_remove_pointless_parens_around_call(o) ==
    o.k = "Call" /\ o.lpar >= 1

\* compile(self.module.code_for_node(node), "<string>", "eval") succeeds:
\* brk marks a call whose own text cannot stand alone as an expression (a
\* chain of attribute accesses broken over several lines).
\* A faulty variant of compile: the text is never verified.
compile_unverified(node) == TRUE

compile(node) == ~("brk" \in DOMAIN node /\ node.brk)

with_changes_no_parens(node) ==
    IF "lpar" \in DOMAIN node THEN [node EXCEPT !.lpar = 0] ELSE node

remove_pointless_parens_around_call(updated_node) ==
    LET noparens == with_changes_no_parens(updated_node) IN
    IF compile(noparens) THEN noparens ELSE updated_node

OneArg(o) == o.k = "Call" /\ Len(o.args) = 1
FuncIn(o, names) == o.k = "Call" /\ o.func.k = "Name" /\ o.func.id \in names

Trigger_replace_generator_in_call_with_comprehension(o) ==
    /\ FuncIn(o, {"list"})
    /\ OneArg(o)
    /\ o.args[1].value.k = "GeneratorExp"

replace_generator_in_call_with_comprehension(updated_node) ==
    IF "args" \notin DOMAIN updated_node THEN Raised("AttributeError")
    ELSE IF Len(updated_node.args) = 0 THEN Raised("IndexError")
    ELSE LET g == updated_node.args[1].value IN
         IF "elt" \notin DOMAIN g THEN Raised("AttributeError")
         ELSE Comp("ListComp", g.elt, g.for_in)

Trigger_replace_unnecessary_list_around_sorted(o) ==
    /\ OneArg(o)
    /\ o.args[1].star = ""
    /\ \/ FuncIn(o, {"list"}) /\ o.args[1].value.k = "ListComp"
       \/ FuncIn(o, {"set"}) /\ o.args[1].value.k = "SetComp"
       \/ FuncIn(o, {"list"}) /\ FuncIn(o.args[1].value, {"sorted", "list"})

replace_unnecessary_list_around_sorted(updated_node) ==
    IF "args" \notin DOMAIN updated_node THEN Raised("AttributeError")
    ELSE IF Len(updated_node.args) = 0 THEN Raised("IndexError")
    ELSE updated_node.args[1].value

Trigger_replace_unnecessary_reversed_around_sorted(o) ==
    /\ FuncIn(o, {"reversed"})
    /\ OneArg(o)
    /\ o.args[1].star = ""
    /\ FuncIn(o.args[1].value, {"sorted"})

\* The first argument of args whose keyword is reverse, or 0 (the loop's else).
FirstReverse(args) ==
    LET S == {i \in 1..Len(args) : args[i].keyword = "reverse"} IN
    IF S = {} THEN 0 ELSE Min(S)

RemoveAt(s, i) == SubSeq(s, 1, i - 1) \o SubSeq(s, i + 1, Len(s))

\* The body of the loop at the matched argument i, when it does not raise.
ToggleReverse(args, i) ==
    LET val == literal_eval(args[i].value) IN
    IF val = "raise"
    THEN [args EXCEPT ![i].value = UnaryOperation("Not", args[i].value)]
    ELSE IF val = "falsy" THEN [args EXCEPT ![i].value = Name("True")]
    ELSE RemoveAt(args, i)

\* After del args[i] the assignment to args[i - 1] only resets a comma, but
\* it indexes the list: with nothing left, args[-1] raises IndexError.
DelRaises(args, i) ==
    literal_eval(args[i].value) = "truthy" /\ RemoveAt(args, i) = <<>>

replace_unnecessary_reversed_around_sorted(updated_node) ==
    IF "args" \notin DOMAIN updated_node THEN Raised("AttributeError")
    ELSE IF Len(updated_node.args) = 0 THEN Raised("IndexError")
    ELSE LET call == updated_node.args[1].value IN
         IF "args" \notin DOMAIN call THEN Raised("AttributeError")
         ELSE LET i == FirstReverse(call.args) IN
              IF i = 0
              THEN [call EXCEPT !.args =
                      Append(call.args, Arg(Name("True"), "reverse", ""))]
              ELSE IF DelRaises(call.args, i) THEN Raised("IndexError")
              ELSE [call EXCEPT !.args = ToggleReverse(call.args, i)]

_sets == {"set", "frozenset"}
_seqs == {"list", "reversed", "sorted", "tuple"}

Trigger_replace_unnecessary_nested_calls(o) ==
    /\ o.k = "Call"
    /\ Len(o.args) >= 1
    /\ o.args[1].star = ""
    /\ \/ FuncIn(o, _sets) /\ OneArg(o)
          /\ FuncIn(o.args[1].value, _sets \cup _seqs)
       \/ FuncIn(o, {"list", "tuple"}) /\ OneArg(o)
          /\ FuncIn(o.args[1].value, {"list", "tuple"})
       \/ FuncIn(o, {"sorted"}) /\ FuncIn(o.args[1].value, _seqs)

replace_unnecessary_nested_calls(updated_node) ==
    IF "args" \notin DOMAIN updated_node THEN Raised("AttributeError")
    ELSE IF Len(updated_node.args) = 0 THEN Raised("IndexError")
    ELSE LET inner == updated_node.args[1].value IN
         IF "args" \notin DOMAIN inner THEN Raised("AttributeError")
         ELSE IF Len(inner.args) = 0 THEN Raised("IndexError")
         ELSE [updated_node EXCEPT
                 !.args = <<PosArg(inner.args[1].value)>> \o Tail(updated_node.args)]

MATCH_NONE_OR_NAME_NONE(x) == x = Nothing \/ IsName(x, "None")

ALL_ELEMS_SLICE(s) ==
    /\ s.k = "Slice"
    /\ MATCH_NONE_OR_NAME_NONE(s.lower)
    /\ MATCH_NONE_OR_NAME_NONE(s.upper)
    /\ \/ MATCH_NONE_OR_NAME_NONE(s.step)
       \/ s.step = Integer("1")
       \/ s.step = UnaryOperation("Minus", Integer("1"))

Trigger_replace_unnecessary_subscript_reversal(o) ==
    /\ FuncIn(o, {"reversed", "set", "sorted"})
    /\ OneArg(o)
    /\ o.args[1].value.k = "Subscript"
    /\ Len(o.args[1].value.slice) = 1
    /\ ALL_ELEMS_SLICE(o.args[1].value.slice[1])

replace_unnecessary_subscript_reversal(updated_node) ==
    IF "args" \notin DOMAIN updated_node THEN Raised("AttributeError")
    ELSE IF Len(updated_node.args) = 0 THEN Raised("IndexError")
    ELSE IF updated_node.args[1].value.k # "Subscript" THEN Raised("AttributeError")
    ELSE [updated_node EXCEPT
            !.args = <<PosArg(updated_node.args[1].value.value)>>]

Trigger_replace_unnecessary_listcomp_or_setcomp(o) ==
    /\ o.k \in {"ListComp", "SetComp"}
    /\ o.elt.k = "Name"
    /\ o.for_in.target.k = "Name"
    /\ o.for_in.ifs = <<>>
    /\ o.for_in.inner_for_in = Nothing
    /\ ~o.for_in.asynchronous

replace_unnecessary_listcomp_or_setcomp(updated_node) ==
    IF "elt" \notin DOMAIN updated_node THEN Raised("AttributeError")
    ELSE IF updated_node.elt.k # "Name" \/ updated_node.for_in.target.k # "Name"
         THEN Raised("AttributeError")
    ELSE IF updated_node.elt.id = updated_node.for_in.target.id
         THEN PlainCall(IF updated_node.k = "ListComp" THEN "list" ELSE "set",
                        <<PosArg(updated_node.for_in.iter)>>)
    ELSE updated_node

IsUnionOrLiteral(o) ==
    o.k = "Subscript" /\ o.value.k = "Name" /\ o.value.id \in {"Union", "Literal"}

Trigger_reorder_union_literal_contents_none_last(o) == IsUnionOrLiteral(o)

\* The kinds whose LibCST node has an attribute named value.
HasValueAttr(n) ==
    n.k \in {"Name", "Integer", "SimpleString", "Subscript", "Attribute", "Index"}

\* key=lambda elt: elt.slice.value.value == "None"; KeyRaises where an
\* attribute is missing.
KeyRaises(elt) == ~HasValueAttr(elt) \/ ~HasValueAttr(elt.value)
SortKey(elt) == IsName(elt.value, "None")

reorder_union_literal_contents_none_last(updated_node) ==
    IF "slice" \notin DOMAIN updated_node THEN Raised("AttributeError")
    ELSE LET subscript_slice == updated_node.slice IN
         IF \E i \in 1..Len(subscript_slice) : KeyRaises(subscript_slice[i])
         THEN Raised("AttributeError")
         ELSE IF subscript_slice = <<>> THEN Raised("IndexError")
         ELSE [updated_node EXCEPT !.slice =
                 SelectSeq(subscript_slice, LAMBDA e : ~SortKey(e))
                 \o SelectSeq(subscript_slice, SortKey)]

Trigger_reorder_union_operator_contents_none_last(o) ==
    /\ o.k = "BinaryOperation"
    /\ IsName(o.left, "None") \/ o.left.k = "BinaryOperation"
    /\ o.operator = "BitOr"

RECURSIVE _has_none(_)
_has_none(node) ==
    IF IsName(node, "None") THEN TRUE
    ELSE IF node.k = "BinaryOperation"
         THEN _has_none(node.left) \/ _has_none(node.right)
    ELSE FALSE

reorder_union_operator_contents_none_last(updated_node) ==
    IF "left" \notin DOMAIN updated_node THEN Raised("AttributeError")
    ELSE LET node_left == updated_node.left IN
         IF _has_none(node_left)
         THEN [updated_node EXCEPT !.left = updated_node.right,
                                   !.right = node_left]
         ELSE updated_node

Trigger_flatten_literal_op(o) ==
    /\ o.k = "BinaryOperation"
    /\ o.left.k = "Subscript"
    /\ IsName(o.left.value, "Literal")
    /\ o.operator = "BitOr"
    /\ IsName(o.right, "None")

flatten_literal_op(updated_node) ==
    IF "left" \notin DOMAIN updated_node THEN Raised("AttributeError")
    ELSE LET literal == updated_node.left IN
         IF "slice" \notin DOMAIN literal THEN Raised("AttributeError")
         ELSE IF \E i \in 1..Len(literal.slice) :
                    literal.slice[i].k = "Index"
                    /\ IsName(literal.slice[i].value, "None")
              THEN literal
         ELSE IF literal.slice = <<>> THEN Raised("IndexError")
         ELSE [literal EXCEPT !.slice = Append(literal.slice, Index(Name("None")))]

Trigger_flatten_union_literal_subscript(o) == IsUnionOrLiteral(o)

\* The loop of flatten_union_literal_subscript from item i on, with the
\* new_slice and has_none built so far.  The second branch compares the
\* outer subscript's value node with the nested subscript node itself.
RECURSIVE FlattenLoop(_, _, _, _)
FlattenLoop(updated_node, i, new_slice, has_none) ==
    IF i > Len(updated_node.slice)
    THEN [updated_node EXCEPT !.slice =
            IF has_none THEN Append(new_slice, Index(Name("None")))
            ELSE new_slice]
    ELSE LET item == updated_node.slice[i] IN
         IF "value" \notin DOMAIN item THEN Raised("AttributeError")
         ELSE IF item.value.k = "Subscript" /\ IsName(item.value.value, "Optional")
              THEN FlattenLoop(updated_node, i + 1,
                               new_slice \o item.value.slice, TRUE)
         ELSE IF /\ item.value.k = "Subscript"
                 /\ (IsName(item.value.value, "Union")
                     \/ IsName(item.value.value, "Literal"))
                 /\ updated_node.value = item.value
              THEN FlattenLoop(updated_node, i + 1,
                               new_slice \o item.value.slice, has_none)
         ELSE IF IsName(item.value, "None")
              THEN FlattenLoop(updated_node, i + 1, new_slice, TRUE)
         ELSE FlattenLoop(updated_node, i + 1, Append(new_slice, item), has_none)

\* A faulty variant of flatten_union_literal_subscript: None members are
\* kept where they are and one more is appended.
flatten_union_literal_subscript_keeping_none(updated_node) ==
    IF "slice" \notin DOMAIN updated_node THEN Raised("AttributeError")
    ELSE LET res == FlattenLoop(updated_node, 1, <<>>, FALSE) IN
         IF IsRaise(res) THEN res
         ELSE [res EXCEPT !.slice =
                 SelectSeq(updated_node.slice,
                           LAMBDA e : IsName(e.value, "None")) \o res.slice]

flatten_union_literal_subscript(updated_node) ==
    IF "slice" \notin DOMAIN updated_node THEN Raised("AttributeError")
    ELSE FlattenLoop(updated_node, 1, <<>>, FALSE)

----------------------------------------------------------------------------
(* The traversal.  MatcherDecoratableTransformer.on_leave calls the typed  *)
(* leave_<Kind> method, then every @m.leave function whose matcher matches *)
(* the ORIGINAL node, each on the value the previous one returned, in the  *)
(* reverse of the alphabetical order of the function names.                *)

RuleOrder ==
    << "leave_Name",
       "leave_Assert",
       "replace_unnecessary_subscript_reversal",
       "replace_unnecessary_reversed_around_sorted",
       "replace_unnecessary_nested_calls",
       "replace_unnecessary_listcomp_or_setcomp",
       "replace_unnecessary_list_around_sorted",
       "replace_not_in_condition",
       "replace_generator_in_call_with_comprehension",
       "reorder_union_operator_contents_none_last",
       "reorder_union_literal_contents_none_last",
       "remove_pointless_parens_around_call",
       "flatten_union_literal_subscript",
       "flatten_literal_op",
       "convert_optional_literal_to_literal_none",
       "convert_none_cmp" >>

\* Rule name is called on original node o; a: inside an Annotation whose
\* annotation is a BinaryOperation; r: inside a Raise of the name
\* NotImplemented.
Fires(name, o, a, r) ==
    CASE name = "leave_Name" -> o.k = "Name" /\ r
      [] name = "leave_Assert" -> o.k = "Assert"
      [] name = "replace_unnecessary_subscript_reversal" ->
           Trigger_replace_unnecessary_subscript_reversal(o)
      [] name = "replace_unnecessary_reversed_around_sorted" ->
           Trigger_replace_unnecessary_reversed_around_sorted(o)
      [] name = "replace_unnecessary_nested_calls" ->
           Trigger_replace_unnecessary_nested_calls(o)
      [] name = "replace_unnecessary_listcomp_or_setcomp" ->
           Trigger_replace_unnecessary_listcomp_or_setcomp(o)
      [] name = "replace_unnecessary_list_around_sorted" ->
           Trigger_replace_unnecessary_list_around_sorted(o)
      [] name = "replace_not_in_condition" -> Trigger_replace_not_in_condition(o)
      [] name = "replace_generator_in_call_with_comprehension" ->
           Trigger_replace_generator_in_call_with_comprehension(o)
      [] name = "reorder_union_operator_contents_none_last" ->
           a /\ Trigger_reorder_union_operator_contents_none_last(o)
      [] name = "reorder_union_literal_contents_none_last" ->
           Trigger_reorder_union_literal_contents_none_last(o)
      [] name = "remove_pointless_parens_around_call" ->
           Trigger_remove_pointless_parens_around_call(o)
      [] name = "flatten_union_literal_subscript" ->
           Trigger_flatten_union_literal_subscript(o)
      [] name = "flatten_literal_op" -> a /\ Trigger_flatten_literal_op(o)
      [] name = "convert_optional_literal_to_literal_none" ->
           Trigger_convert_optional_literal_to_literal_none(o)
      [] name = "convert_none_cmp" -> Trigger_convert_none_cmp(o)

NodeFields ==
    {"func", "value", "elt", "for_in", "target", "iter", "inner_for_in",
     "lower", "upper", "step", "left", "right", "expression", "comparator",
     "annotation", "test", "msg", "exc", "cause"}
SeqFields == {"args", "slice", "ifs", "comparisons", "elements"}
\* The order in which a node's children are visited.
ChildOrder ==
    << "annotation", "test", "msg", "exc", "cause", "func", "args", "elt", "for_in", "target", "iter", "ifs", "inner_for_in",
       "value", "slice", "lower", "upper", "step", "left", "comparisons",
       "right", "expression", "comparator", "elements" >>

\* m.call_if_inside: the gate open below field f of node n.
InAnnotation(n, f, a) ==
    a \/ (n.k = "AnnAssign" /\ f = "annotation"
          /\ n.annotation.k = "BinaryOperation")
InRaise(n, r) == r \/ (n.k = "Raise" /\ IsName(n.exc, "NotImplemented"))

\* The calls of rewrite functions that the traversal of n makes, in order:
\* children before parents, and at one node in RuleOrder.  A path is a
\* sequence of <<field, index>> steps (index 0 for a single child).
RuleIndexes == [i \in 1..Len(RuleOrder) |-> i]

RECURSIVE Schedule(_, _, _, _)
RECURSIVE ScheduleSeq(_, _, _, _, _, _)
RECURSIVE ScheduleFields(_, _, _, _, _)

ScheduleSeq(s, path, f, a, r, i) ==
    IF i > Len(s) THEN <<>>
    ELSE Schedule(s[i], Append(path, <<f, i>>), a, r)
         \o ScheduleSeq(s, path, f, a, r, i + 1)

ScheduleFields(n, path, a, r, fs) ==
    IF fs = <<>> THEN <<>>
    ELSE LET f == fs[1] IN
         (IF f \in NodeFields
          THEN Schedule(n[f], Append(path, <<f, 0>>),
                        InAnnotation(n, f, a), InRaise(n, r))
          ELSE ScheduleSeq(n[f], path, f, InAnnotation(n, f, a), InRaise(n, r), 1))
         \o ScheduleFields(n, path, a, r, Tail(fs))

Schedule(n, path, a, r) ==
    LET own == SelectSeq(RuleIndexes, LAMBDA x : Fires(RuleOrder[x], n, a, r))
        fs == SelectSeq(ChildOrder, LAMBDA f : f \in DOMAIN n)
    IN ScheduleFields(n, path, a, r, fs)
       \o [i \in 1..Len(own) |-> [path |-> path, a |-> a, r |-> r, rule |-> own[i]]]

RECURSIVE At(_, _)
At(n, path) ==
    IF path = <<>> THEN n
    ELSE At(IF path[1][2] = 0 THEN n[path[1][1]] ELSE n[path[1][1]][path[1][2]],
            Tail(path))

\* n with the node at path replaced by v (deep_replace of the updated child).
RECURSIVE Put(_, _, _)
Put(n, path, v) ==
    IF path = <<>> THEN v
    ELSE LET f == path[1][1]
             i == path[1][2]
         IN IF i = 0 THEN [n EXCEPT ![f] = Put(n[f], Tail(path), v)]
            ELSE [n EXCEPT ![f][i] = Put(n[f][i], Tail(path), v)]

----------------------------------------------------------------------------
(* mod.code followed by a parse of that text.  Brackets delimit every      *)
(* construct but the operands of `|`: a chain a | b | c is read back       *)
(* left-associated, whatever tree it was printed from, unless parentheses  *)
(* (lpar) group it.                                                        *)

RECURSIVE FoldLeft(_, _)
FoldLeft(acc, ops) ==
    IF ops = <<>> THEN acc
    ELSE FoldLeft(BinaryOperation(acc, "BitOr", ops[1], 0), Tail(ops))

RECURSIVE Reparse(_)
RECURSIVE Operands(_)
Operands(n) ==
    IF n.k = "BinaryOperation" /\ n.operator = "BitOr" /\ n.lpar = 0
    THEN Operands(n.left) \o Operands(n.right)
    ELSE <<Reparse(n)>>

Reparse(n) ==
    IF n.k = "BinaryOperation" /\ n.operator = "BitOr"
    THEN LET ops == Operands(n.left) \o Operands(n.right) IN
         [FoldLeft(ops[1], Tail(ops)) EXCEPT !.lpar = n.lpar]
    ELSE [f \in DOMAIN n |->
            IF f \in NodeFields THEN Reparse(n[f])
            ELSE IF f \in SeqFields
                 THEN [i \in 1..Len(n[f]) |-> Reparse(n[f][i])]
            ELSE n[f]]

\* The sources checked write a generator expression without parentheses of
\* its own, as the only argument of a call; text with such a generator
\* anywhere else does not parse.
RECURSIVE BareGenerator(_, _)
BareGenerator(n, sole) ==
    \/ n.k = "GeneratorExp" /\ ~sole
    \/ \E f \in DOMAIN n \cap NodeFields :
          BareGenerator(n[f], n.k = "Arg" /\ sole /\ n.star = "" /\ n.keyword = "")
    \/ \E f \in DOMAIN n \cap SeqFields :
          \E i \in 1..Len(n[f]) :
             BareGenerator(n[f][i], n.k = "Call" /\ Len(n[f]) = 1)

----------------------------------------------------------------------------
(* _run_codemods.  A source is its statement's tree together with a trait  *)
(* of its text that only the parser sees:                                  *)
(*   ""              nothing more                                          *)
(*   "eqtext"        a plain string literal containing =}                  *)
(*   "fdebug"        the f-string f"{x=}" (3.8 syntax)                     *)
(*   "fdebug_sp"     the f-string f"{x = }" (3.8 syntax, no =} in the text)*)
(*   "walrus"        an assignment expression (3.8 syntax)                 *)
(*   "walrus_eqtext" both a walrus and a string literal containing =}      *)
(*   "bad"           an unclosed bracket                                   *)
(*   "fdebug_bad"    f"{x=}" followed by an unclosed bracket               *)
(* The sources never import hypothesis, so attempt_hypothesis_codemods is  *)
(* not called.                                                             *)

Traits ==
    {"", "eqtext", "fdebug", "fdebug_sp", "walrus", "walrus_eqtext", "bad",
     "fdebug_bad"}

VersionGE(v, w) == v[1] > w[1] \/ (v[1] = w[1] /\ v[2] >= w[2])

\* The newest grammar the parser has, and the version the retry names.
LatestGrammar == <<3, 8>>

_pick_compatible_python_version(v) ==
    IF VersionGE(v, LatestGrammar) THEN LatestGrammar ELSE v

\* cst.parse_module under grammar v: "ok", or the message of the
\* ParserSyntaxError at the first offending token: "Incomplete input" (the
\* message the except clause recognises) or "other".
parse_module(src, v) ==
    LET old == ~VersionGE(v, LatestGrammar) IN
    CASE src.extra \in {"", "eqtext"} -> "ok"
      [] src.extra \in {"fdebug", "fdebug_sp"} ->
           IF old THEN "Incomplete input" ELSE "ok"
      [] src.extra \in {"walrus", "walrus_eqtext"} ->
           IF old THEN "other" ELSE "ok"
      [] src.extra = "bad" -> "other"
      [] src.extra = "fdebug_bad" -> IF old THEN "Incomplete input" ELSE "other"

\* "=}" in code
HasEqBrace(src) == src.extra \in {"eqtext", "fdebug", "walrus_eqtext", "fdebug_bad"}

\* A faulty variant of Reraise: the text is not searched for "=}".
Reraise_ignoring_text(src, v, msg) ==
    VersionGE(v, <<3, 8>>) \/ msg # "Incomplete input"

\* The condition under which the except clause re-raises.
Reraise(src, v, msg) ==
    VersionGE(v, <<3, 8>>) \/ ~HasEqBrace(src) \/ msg # "Incomplete input"

\* The calls that transform_module will make on module m.
Steps(m) == Schedule(m, <<>>, FALSE, FALSE)

\* try: parse with the compatible version of min_version
ParseModule ==
    /\ pc = "start"
    /\ nparse' = nparse + 1
    /\ LET res == parse_module(code, _pick_compatible_python_version(min_version))
       IN IF res = "ok"
          THEN /\ mod' = code.stmt
               /\ steps' = Steps(code.stmt)
               /\ tree' = code.stmt
               /\ pc' = "leave"
               /\ err' = ""
          ELSE /\ UNCHANGED <<mod, steps, tree>>
               /\ pc' = "except"
               /\ err' = res
    /\ UNCHANGED <<code, min_version, updated, retval, prev, ri, applied, out,
                   passno, out1>>

\* except cst.ParserSyntaxError as err: re-raise, or parse once more as 3.8
ExceptParserSyntaxError ==
    /\ pc = "except"
    /\ IF Reraise(code, min_version, err)
       THEN /\ pc' = "raised"
            /\ err' = "ParserSyntaxError"
            /\ UNCHANGED <<mod, steps, tree, nparse>>
       ELSE /\ nparse' = nparse + 1
            /\ IF parse_module(code, <<3, 8>>) = "ok"
               THEN /\ mod' = code.stmt
                    /\ steps' = Steps(code.stmt)
                    /\ tree' = code.stmt
                    /\ pc' = "leave"
                    /\ err' = ""
               ELSE /\ UNCHANGED <<mod, steps, tree>>
                    /\ pc' = "raised"
                    /\ err' = "ParserSyntaxError"
    /\ UNCHANGED <<code, min_version, updated, retval, prev, ri, applied, out,
                   passno, out1>>

\* ShedFixers(context).transform_module(mod) visits the tree children first
\* and, on leaving a node, calls the rewrite functions whose matcher accepts
\* the original node, each on what the one before returned.  steps lists
\* these calls; ri counts the calls made; tree is the module with the nodes
\* left so far replaced by their results.

\* The node the next call is handed.
Given == At(tree, steps[ri + 1].path)

\* The next call is the first one on its node.
FirstCall == ri = 0 \/ steps[ri].path # steps[ri + 1].path

\* The next call is of function name and returns res.  updated is the
\* updated_node that on_leave received for the node being left, applied
\* lists the functions called so far on it, prev is what the function was
\* handed and retval what it returned; an exception leaves the call.
Leave(name, res) ==
    /\ ri < Len(steps)
    /\ RuleOrder[steps[ri + 1].rule] = name
    /\ prev' = Given
    /\ updated' = IF FirstCall THEN Given ELSE updated
    /\ applied' = IF FirstCall THEN <<name>> ELSE Append(applied, name)
    /\ ri' = ri + 1
    /\ IF IsRaise(res)
       THEN /\ pc' = "raised"
            /\ err' = res.id
            /\ retval' = Nothing
            /\ tree' = tree
       ELSE /\ pc' = pc
            /\ err' = err
            /\ retval' = res
            /\ tree' = Put(tree, steps[ri + 1].path, res)
    /\ UNCHANGED <<code, min_version, nparse, mod, steps, out, passno, out1>>

Do_leave_Name ==
    /\ pc = "leave"
    /\ Leave("leave_Name",
             leave_Name(Given))

Do_leave_Assert ==
    /\ pc = "leave"
    /\ Leave("leave_Assert",
             leave_Assert(Given))

Do_convert_optional_literal_to_literal_none ==
    /\ pc = "leave"
    /\ Leave("convert_optional_literal_to_literal_none",
             convert_optional_literal_to_literal_none(Given))

Do_convert_none_cmp ==
    /\ pc = "leave"
    /\ Leave("convert_none_cmp",
             convert_none_cmp(Given))

Do_replace_not_in_condition ==
    /\ pc = "leave"
    /\ Leave("replace_not_in_condition",
             replace_not_in_condition(Given))

Do_remove_pointless_parens_around_call ==
    /\ pc = "leave"
    /\ Leave("remove_pointless_parens_around_call",
             remove_pointless_parens_around_call(Given))

Do_replace_generator_in_call_with_comprehension ==
    /\ pc = "leave"
    /\ Leave("replace_generator_in_call_with_comprehension",
             replace_generator_in_call_with_comprehension(Given))

Do_replace_unnecessary_list_around_sorted ==
    /\ pc = "leave"
    /\ Leave("replace_unnecessary_list_around_sorted",
             replace_unnecessary_list_around_sorted(Given))

Do_replace_unnecessary_reversed_around_sorted ==
    /\ pc = "leave"
    /\ Leave("replace_unnecessary_reversed_around_sorted",
             replace_unnecessary_reversed_around_sorted(Given))

Do_replace_unnecessary_nested_calls ==
    /\ pc = "leave"
    /\ Leave("replace_unnecessary_nested_calls",
             replace_unnecessary_nested_calls(Given))

Do_replace_unnecessary_subscript_reversal ==
    /\ pc = "leave"
    /\ Leave("replace_unnecessary_subscript_reversal",
             replace_unnecessary_subscript_reversal(Given))

Do_replace_unnecessary_listcomp_or_setcomp ==
    /\ pc = "leave"
    /\ Leave("replace_unnecessary_listcomp_or_setcomp",
             replace_unnecessary_listcomp_or_setcomp(Given))

Do_reorder_union_literal_contents_none_last ==
    /\ pc = "leave"
    /\ Leave("reorder_union_literal_contents_none_last",
             reorder_union_literal_contents_none_last(Given))

Do_reorder_union_operator_contents_none_last ==
    /\ pc = "leave"
    /\ Leave("reorder_union_operator_contents_none_last",
             reorder_union_operator_contents_none_last(Given))

Do_flatten_literal_op ==
    /\ pc = "leave"
    /\ Leave("flatten_literal_op",
             flatten_literal_op(Given))

Do_flatten_union_literal_subscript ==
    /\ pc = "leave"
    /\ Leave("flatten_union_literal_subscript",
             flatten_union_literal_subscript(Given))

\* A removed statement leaves an empty module.
ModuleOf(result) == IF result = RemovalSentinel THEN Nothing ELSE result

\* return mod.code, once the traversal has left the root
ReturnCode ==
    /\ pc = "leave"
    /\ ri = Len(steps)
    /\ out' = ModuleOf(tree)
    /\ pc' = "done"
    /\ UNCHANGED <<code, min_version, nparse, mod, steps, tree, updated, retval,
                   prev, ri, applied, err, passno, out1>>

\* The caller runs _run_codemods again on the text it got back.
RunAgain ==
    /\ pc = "done"
    /\ passno = 1
    /\ passno' = 2
    /\ out1' = out
    /\ code' = [stmt |-> Reparse(out),
                extra |-> IF BareGenerator(out, FALSE) THEN "bad" ELSE code.extra]
    /\ pc' = "start"
    /\ nparse' = 0
    /\ mod' = Nothing
    /\ steps' = <<>>
    /\ tree' = Nothing
    /\ updated' = Nothing
    /\ retval' = Nothing
    /\ prev' = Nothing
    /\ ri' = 0
    /\ applied' = <<>>
    /\ out' = Nothing
    /\ UNCHANGED <<min_version, err>>

----------------------------------------------------------------------------
(* The sources checked.                                                    *)

MaxParens == 2
MaxMembers == 3
MaxChain == 3

PlainFor == CompFor(Name("x"), Name("y"), <<>>, Nothing, FALSE)
Comps ==
    { Comp("GeneratorExp", Name("x"), PlainFor),
      Comp("ListComp", Name("x"), PlainFor),
      Comp("SetComp", Name("x"), PlainFor),
      Comp("ListComp", Name("z"), PlainFor),
      Comp("ListComp", Name("x"), [PlainFor EXCEPT !.ifs = <<Name("x")>>]),
      Comp("ListComp", Name("x"),
           [PlainFor EXCEPT !.inner_for_in =
              CompFor(Name("z"), Name("w"), <<>>, Nothing, FALSE)]),
      Comp("ListComp", Name("x"), [PlainFor EXCEPT !.asynchronous = TRUE]) }

Slices ==
    { Subscript(Name("y"),
                <<Slice(Nothing, Nothing, UnaryOperation("Minus", Integer("1")))>>),
      Subscript(Name("y"), <<Slice(Nothing, Nothing, Integer("2"))>>) }

Funcs == {"list", "set", "sorted", "reversed", "tuple", "foo"}

\* Calls of one function on at most one simple argument.
Calls1 ==
    {PlainCall(f, <<>>) : f \in Funcs}
    \cup {PlainCall(f, <<PosArg(v)>>) :
            f \in Funcs, v \in {Name("y")} \cup Comps \cup Slices}
    \cup {PlainCall(f, <<Arg(Name("y"), "", "*")>>) : f \in Funcs}

ReverseValues == {Name("True"), Name("False"), Integer("0"), Name("z")}
KeyArg == Arg(Name("k"), "key", "")

\* Calls of sorted with and without a reverse argument.
SortedCalls ==
    { PlainCall("sorted", <<PosArg(Name("y")), KeyArg>>),
      PlainCall("sorted", <<KeyArg>>) }
    \cup UNION { LET rev == Arg(v, "reverse", "") IN
                 { PlainCall("sorted", <<rev>>),
                   PlainCall("sorted", <<PosArg(Name("y")), rev>>),
                   PlainCall("sorted", <<PosArg(Name("y")), rev, KeyArg>>),
                   PlainCall("sorted", <<PosArg(Name("y")), KeyArg, rev>>),
                   PlainCall("sorted", <<rev, KeyArg>>) } : v \in ReverseValues }

Wrap(inner) ==
    {PlainCall(f, <<PosArg(c)>>) : f \in Funcs, c \in inner}

Calls1Small ==
    {PlainCall(f, <<>>) : f \in Funcs}
    \cup {PlainCall(f, <<PosArg(v)>>) :
            f \in Funcs,
            v \in { Name("y"), Comp("GeneratorExp", Name("x"), PlainFor),
                    Comp("ListComp", Name("x"), PlainFor) }}

Calls2 ==
    Wrap(Calls1 \cup SortedCalls)
    \cup {PlainCall("sorted", <<PosArg(c), KeyArg>>) : c \in Calls1}
    \cup {PlainCall(f, <<Arg(c, "", "*")>>) : f \in Funcs, c \in Calls1Small}

Calls3 == Wrap(Wrap(Calls1Small))

Parenthesised(calls, brks) ==
    {[c EXCEPT !.lpar = p, !.brk = b] : c \in calls, p \in 1..MaxParens, b \in brks}

ParenCalls ==
    Parenthesised(Calls1Small \cup Wrap(Calls1Small), BOOLEAN)
    \cup Wrap({[c EXCEPT !.lpar = 1, !.brk = b] : c \in Calls1Small, b \in BOOLEAN})

CallStmts ==
    {Expr(c) : c \in Calls1 \cup SortedCalls \cup Calls2 \cup Calls3 \cup ParenCalls}
    \cup {Expr(c) : c \in {d \in Comps : d.k # "GeneratorExp"}}

\* Union[...] and Literal[...] annotations.
Members(outer) ==
    { Name("None"), Name("int"), Name("str"),
      Subscript(Name("Optional"), <<Index(Name("int"))>>),
      Subscript(Name("Optional"), <<Index(Name("None"))>>),
      Subscript(Name(outer), <<Index(Name("None")), Index(Name("int"))>>),
      Tuple(<<>>) }

UnionLiterals ==
    UNION { UNION { { Subscript(Name(outer), [i \in 1..n |-> Index(ms[i])]) :
                        ms \in [1..n -> Members(outer)] } :
                    n \in 1..MaxMembers } :
            outer \in {"Union", "Literal"} }

Literal1 == Subscript(Name("Literal"), <<Index(Integer("1"))>>)
LiteralNone1 ==
    Subscript(Name("Literal"), <<Index(Name("None")), Index(Integer("1"))>>)

OtherSubscripts ==
    { Subscript(Name("Union"), <<Slice(Nothing, Nothing, Nothing)>>),
      Subscript(Name("Optional"), <<Index(Literal1)>>),
      Subscript(Name("Optional"), <<Index(LiteralNone1)>>),
      Subscript(Name("Optional"), <<Index(Name("int"))>>),
      Subscript(Name("Union"),
                <<Index(Subscript(Name("Optional"), <<Index(Literal1)>>)),
                  Index(Name("int"))>>),
      Subscript(Name("Union"), <<Index(LiteralNone1), Index(Name("None"))>>),
      Subscript(Name("List"), <<Index(Name("None")), Index(Name("int"))>>),
      Subscript(Name("Union"),
                <<Index(SimpleString("\"None\"")), Index(Name("None")),
                  Index(Integer("1"))>>) }

SubscriptStmts ==
    {AnnAssign(u, Nothing) : u \in UnionLiterals \cup OtherSubscripts}
    \cup {Expr(u) : u \in OtherSubscripts}

\* Chains of `|` as the parser builds them: a right operand that is itself
\* a `|` operation carries parentheses.
Operand == {Name("None"), Name("int"), Name("str")}

RECURSIVE ChainsOf(_)
LeftOf(n) ==
    IF n = 1 THEN Operand
    ELSE {[c EXCEPT !.lpar = p] : c \in ChainsOf(n), p \in {0, 1}}
RightOf(n) ==
    IF n = 1 THEN Operand ELSE {[c EXCEPT !.lpar = 1] : c \in ChainsOf(n)}
ChainsOf(n) ==
    IF n = 1 THEN Operand
    ELSE UNION { { BinaryOperation(l, "BitOr", r, 0) :
                     l \in LeftOf(i), r \in RightOf(n - i) } : i \in 1..(n - 1) }

Chains == UNION {ChainsOf(n) : n \in 2..MaxChain}

LiteralOps ==
    { BinaryOperation(Literal1, "BitOr", Name("None"), 0),
      BinaryOperation(LiteralNone1, "BitOr", Name("None"), 0),
      BinaryOperation(Literal1, "BitOr", Name("int"), 0),
      BinaryOperation(Name("None"), "BitOr", Literal1, 0),
      BinaryOperation(BinaryOperation(Literal1, "BitOr", Name("None"), 0),
                      "BitOr", Name("None"), 0),
      BinaryOperation(Name("None"), "BitOr",
                      BinaryOperation(Literal1, "BitOr", Name("None"), 1), 0) }

UnionOpStmts ==
    {AnnAssign(c, Nothing) : c \in Chains \cup LiteralOps}
    \cup {Expr(c) : c \in ChainsOf(2) \cup LiteralOps}
    \cup {AnnAssign(Name("int"), c) : c \in ChainsOf(2)}
    \cup {AnnAssign(Subscript(Name("List"), <<Index(c)>>), Nothing) :
            c \in ChainsOf(2)}
    \cup {AnnAssign(BinaryOperation([c EXCEPT !.lpar = 1], "Add", Name("int"), 0),
                    Nothing) : c \in ChainsOf(2)}

NoneCmp == Comparison(Name("x"), <<ComparisonTarget("Equal", Name("None"))>>)
ListOfGen ==
    PlainCall("list", <<PosArg(Comp("GeneratorExp", Name("x"), PlainFor))>>)

Tests ==
    { Name("True"), Name("False"), Name("None"), Integer("0"), Integer("1"),
      SimpleString("\"\""), SimpleString("\"a\""), Tuple(<<>>),
      Tuple(<<Integer("1")>>), Tuple(<<Name("x")>>),
      UnaryOperation("Minus", Integer("1")),
      UnaryOperation("Not", Name("True")),
      Name("x"), PlainCall("foo", <<>>), NoneCmp }
Msgs == {Nothing, SimpleString("\"m\""), NoneCmp, ListOfGen}

AssertStmts == {AssertStmt(t, m) : t \in Tests, m \in Msgs}

OtherStmts ==
    { Expr(NoneCmp),
      Expr(Comparison(Name("x"), <<ComparisonTarget("Equal", Name("y"))>>)),
      Expr(Comparison(Name("x"), <<ComparisonTarget("Is", Name("None"))>>)),
      Expr(Comparison(Name("x"), <<ComparisonTarget("Equal", Name("None")),
                                   ComparisonTarget("Equal", Name("None"))>>)),
      Expr(UnaryOperation("Not",
             Comparison(Name("x"), <<ComparisonTarget("In", Name("y"))>>))),
      Expr(UnaryOperation("Not", NoneCmp)),
      Expr(UnaryOperation("Not",
             Comparison(Name("x"), <<ComparisonTarget("In", Name("y")),
                                     ComparisonTarget("In", Name("z"))>>))),
      RaiseStmt(Name("NotImplemented"), Nothing),
      RaiseStmt(Name("NotImplemented"), Name("e")),
      RaiseStmt(PlainCall("NotImplemented", <<>>), Nothing),
      RaiseStmt(Name("ValueError"), Name("NotImplemented")),
      Expr(Name("NotImplemented")) }

Stmts == CallStmts \cup SubscriptStmts \cup UnionOpStmts \cup AssertStmts
         \cup OtherStmts

\* Statements that every trait and every version is combined with.
FewStmts == {Expr(Name("y")), Expr(ListOfGen), Expr(PlainCall("list", <<>>))}

Versions == {<<3, 6>>, <<3, 7>>, <<3, 8>>, <<3, 9>>}

Init ==
    /\ code \in [stmt : Stmts, extra : {""}] \cup [stmt : FewStmts, extra : Traits]
    /\ min_version \in Versions
    /\ code.stmt \in FewStmts \/ min_version = <<3, 8>>
    /\ pc = "start"
    /\ nparse = 0
    /\ mod = Nothing
    /\ steps = <<>>
    /\ tree = Nothing
    /\ updated = Nothing
    /\ retval = Nothing
    /\ prev = Nothing
    /\ ri = 0
    /\ applied = <<>>
    /\ out = Nothing
    /\ err = ""
    /\ passno = 1
    /\ out1 = Nothing

Next ==
    \/ ParseModule
    \/ ExceptParserSyntaxError
    \/ Do_leave_Name
    \/ Do_leave_Assert
    \/ Do_convert_optional_literal_to_literal_none
    \/ Do_convert_none_cmp
    \/ Do_replace_not_in_condition
    \/ Do_remove_pointless_parens_around_call
    \/ Do_replace_generator_in_call_with_comprehension
    \/ Do_replace_unnecessary_list_around_sorted
    \/ Do_replace_unnecessary_reversed_around_sorted
    \/ Do_replace_unnecessary_nested_calls
    \/ Do_replace_unnecessary_subscript_reversal
    \/ Do_replace_unnecessary_listcomp_or_setcomp
    \/ Do_reorder_union_literal_contents_none_last
    \/ Do_reorder_union_operator_contents_none_last
    \/ Do_flatten_literal_op
    \/ Do_flatten_union_literal_subscript
    \/ ReturnCode
    \/ RunAgain

Spec == Init /\ [][Next]_vars

----------------------------------------------------------------------------
(* Properties.                                                             *)

\* The last call made was of function name.
Called(name) == ri > 0 /\ ri <= Len(steps) /\ RuleOrder[steps[ri].rule] = name

IsNone(elt) == "value" \in DOMAIN elt /\ IsName(elt.value, "None")
IsOptional(elt) ==
    /\ "value" \in DOMAIN elt
    /\ elt.value.k = "Subscript"
    /\ IsName(elt.value.value, "Optional")
IsSameFamily(elt, outer) ==
    /\ "value" \in DOMAIN elt
    /\ elt.value.k = "Subscript"
    /\ elt.value.value = outer
Count(s, P(_)) == Len(SelectSeq(s, P))

\* C1: idempotence.  A second run on the text the first run returned
\* returns that text again.
C1_Idempotence ==
    (passno = 2 /\ pc \in {"done", "raised"})
        => (pc = "done" /\ Reparse(out) = Reparse(out1))

\* list(x for x in y) gives [x for x in y], and that gives list(y).
C1_Witness ==
    /\ passno = 2
    /\ pc = "done"
    /\ out1 = Expr(Comp("ListComp", Name("x"), PlainFor))
    /\ out = Expr(PlainCall("list", <<PosArg(Name("y"))>>))

\* C2: an exception raised inside a rewrite function never fails the call:
\* the only error _run_codemods raises is the parser's.
C2_RuleErrorsCaught == pc = "raised" => err = "ParserSyntaxError"

\* list(list()) leaves replace_unnecessary_nested_calls with an IndexError.
C2_Witness ==
    /\ pc = "raised"
    /\ err = "IndexError"
    /\ mod = Expr(PlainCall("list", <<PosArg(PlainCall("list", <<>>))>>))
    /\ applied = <<"replace_unnecessary_nested_calls">>

\* C3: after the functions on a Union[...] or Literal[...] have run, no
\* member is an Optional[...] or a nested subscript of the same family, and
\* where a member was None, an Optional or a nested subscript of the same
\* family holding None, exactly one member is None and it is the last.
C3_Flattened ==
    (Called("flatten_union_literal_subscript") /\ pc # "raised")
        => LET ms == updated.slice
               os == retval.slice
               src(e) == \/ IsNone(e)
                         \/ IsOptional(e)
                         \/ /\ IsSameFamily(e, updated.value)
                            /\ \E j \in 1..Len(e.value.slice) :
                                  IsNone(e.value.slice[j])
           IN /\ \A i \in 1..Len(os) :
                    ~IsOptional(os[i]) /\ ~IsSameFamily(os[i], updated.value)
              /\ (\E i \in 1..Len(ms) : src(ms[i]))
                    => /\ Count(os, IsNone) = 1
                       /\ IsNone(os[Len(os)])

\* x: Union[Union[None, int], str] keeps its nested Union.
C3_Witness ==
    /\ pc = "done"
    /\ mod = AnnAssign(Subscript(Name("Union"),
                 <<Index(Subscript(Name("Union"),
                           <<Index(Name("None")), Index(Name("int"))>>)),
                   Index(Name("str"))>>), Nothing)
    /\ out = AnnAssign(Subscript(Name("Union"),
                 <<Index(Subscript(Name("Union"),
                           <<Index(Name("int")), Index(Name("None"))>>)),
                   Index(Name("str"))>>), Nothing)

RECURSIVE C4_Peeled(_)
C4_Peeled(ms) ==
    IF ms = <<>> THEN <<>>
    ELSE (IF IsOptional(ms[1]) THEN ms[1].value.slice ELSE <<ms[1]>>)
         \o C4_Peeled(Tail(ms))

C5_Truthy ==
    { Name("True"), Integer("1"), SimpleString("\"a\""),
      Tuple(<<Integer("1")>>), UnaryOperation("Minus", Integer("1")) }
C5_Falsy ==
    { Name("False"), Name("None"), Integer("0"), SimpleString("\"\""),
      Tuple(<<>>) }
C5_NotLiteral ==
    { Name("x"), PlainCall("foo", <<>>), Tuple(<<Name("x")>>),
      UnaryOperation("Not", Name("True")),
      Comparison(Name("x"), <<ComparisonTarget("Is", Name("None"))>>) }

\* C5: an assert whose test is a truthy literal is removed, one whose test
\* is a falsy literal becomes raise AssertionError, with the message as the
\* argument when there is one, and any other assert is returned unchanged.
C5_AssertFolding ==
    Called("leave_Assert")
        => /\ pc # "raised"
           /\ prev.test \in C5_Truthy \cup C5_Falsy \cup C5_NotLiteral
           /\ prev.test \in C5_Truthy => retval = RemovalSentinel
           /\ (prev.test \in C5_Falsy /\ prev.msg = Nothing)
                 => retval = RaiseStmt(Name("AssertionError"), Nothing)
           /\ (prev.test \in C5_Falsy /\ prev.msg # Nothing)
                 => retval = RaiseStmt(PlainCall("AssertionError",
                                                 <<PosArg(prev.msg)>>), Nothing)
           /\ prev.test \in C5_NotLiteral => retval = prev
           /\ (pc = "done" /\ prev.test \in C5_Truthy) => out = Nothing
           /\ (pc = "done" /\ prev.test \notin C5_Truthy) => out = retval

\* assert False, "m" has become raise AssertionError("m").
C5_Witness ==
    /\ pc = "done"
    /\ mod = AssertStmt(Name("False"), SimpleString("\"m\""))
    /\ out = RaiseStmt(PlainCall("AssertionError",
                                 <<PosArg(SimpleString("\"m\""))>>), Nothing)

\* The arguments C6 describes for the merged call.
C6_Args(args) ==
    LET S == {i \in 1..Len(args) : args[i].keyword = "reverse"} IN
    IF S = {} THEN Append(args, Arg(Name("True"), "reverse", ""))
    ELSE LET i == Min(S)
             v == args[i].value
         IN IF v \in {Name("False"), Integer("0")}
            THEN [args EXCEPT ![i].value = Name("True")]
            ELSE IF v = Name("True")
                 THEN SubSeq(args, 1, i - 1) \o SubSeq(args, i + 1, Len(args))
            ELSE [args EXCEPT ![i].value = UnaryOperation("Not", v)]

\* C6: reversed(sorted(...)) becomes the sorted call, with reverse=True
\* appended, a falsy reverse made True, a truthy reverse removed or any
\* other reverse negated, and the other arguments kept in their order.
C6_ReversedSortedMerged ==
    Called("replace_unnecessary_reversed_around_sorted")
        => /\ pc # "raised"
           /\ retval = [prev.args[1].value EXCEPT
                           !.args = C6_Args(prev.args[1].value.args)]

\* reversed(sorted(reverse=True)) raises IndexError.
C6_Witness ==
    /\ Called("replace_unnecessary_reversed_around_sorted")
    /\ pc = "raised"
    /\ err = "IndexError"
    /\ prev = PlainCall("reversed",
                <<PosArg(PlainCall("sorted",
                                   <<Arg(Name("True"), "reverse", "")>>))>>)

\* C7: handed a call in parentheses, remove_pointless_parens_around_call
\* returns it without any of them if the call's text compiles without them
\* (a call broken over lines does not), and else returns it as handed.
C7_ParenStripping ==
    (Called("remove_pointless_parens_around_call") /\ prev.k = "Call")
        => /\ pc # "raised"
           /\ ~prev.brk => retval = [prev EXCEPT !.lpar = 0]
           /\ prev.brk => retval = prev

\* ((foo())) has become foo().
C7_Witness ==
    /\ Called("remove_pointless_parens_around_call")
    /\ prev = Call(Name("foo"), <<>>, MaxParens, FALSE)
    /\ retval = PlainCall("foo", <<>>)
    /\ pc = "done"
    /\ out = Expr(PlainCall("foo", <<>>))

\* The first parse failed with the message the except clause recognises,
\* min_version is below 3.8 and the text holds "=}".
C8_RetryCase ==
    /\ parse_module(code, _pick_compatible_python_version(min_version))
         = "Incomplete input"
    /\ ~VersionGE(min_version, <<3, 8>>)
    /\ HasEqBrace(code)

\* C8: the source is parsed at most twice; it is parsed a second time, as
\* 3.8, exactly in the retry case; any other failure of the first parse and
\* any failure of the second is raised, with no function called and no text
\* returned.
C8_ParseRetry ==
    /\ nparse <= 2
    /\ pc \notin {"start", "except"}
         => /\ nparse = 2 <=> C8_RetryCase
            /\ LET first ==
                     parse_module(code, _pick_compatible_python_version(min_version))
                   failed == \/ first # "ok" /\ ~C8_RetryCase
                             \/ C8_RetryCase /\ parse_module(code, <<3, 8>>) # "ok"
               IN /\ failed <=> (pc = "raised" /\ err = "ParserSyntaxError")
                  /\ failed => (ri = 0 /\ mod = Nothing /\ out = Nothing)

\* f"{x=}" parsed for 3.6 and then again as 3.8.
C8_Witness ==
    /\ nparse = 2
    /\ pc = "done"
    /\ code.extra = "fdebug"
    /\ min_version = <<3, 6>>

\* C9: no node is handed to two rewrite functions.
C9_AtMostOneRule == Len(applied) <= 1

\* list(list(y)) is handed to replace_unnecessary_nested_calls and then to
\* replace_unnecessary_list_around_sorted, which leave y.
C9_Witness ==
    /\ updated = PlainCall("list", <<PosArg(PlainCall("list", <<PosArg(Name("y"))>>))>>)
    /\ applied = << "replace_unnecessary_nested_calls",
                    "replace_unnecessary_list_around_sorted" >>
    /\ retval = Name("y")

\* The operands of a chain of `|`, as the text shows them.
RECURSIVE C10_Operands(_)
C10_Operands(n) ==
    IF n.k = "BinaryOperation" /\ n.operator = "BitOr"
    THEN C10_Operands(n.left) \o C10_Operands(n.right)
    ELSE <<n>>

\* C10: in an annotation that is a chain of `|`, no None is left standing
\* to the left of an operand that is not None.
C10_NoneLast ==
    (pc = "done" /\ mod.k = "AnnAssign" /\ mod.annotation.k = "BinaryOperation"
       /\ mod.annotation.operator = "BitOr")
        => LET ops == C10_Operands(out.annotation) IN
           \A i, j \in 1..Len(ops) :
              i < j => ~(IsName(ops[i], "None") /\ ~IsName(ops[j], "None"))

\* x: None | int | None comes back as None | int | None.
C10_Witness ==
    /\ pc = "done"
    /\ mod = AnnAssign(BinaryOperation(
                 BinaryOperation(Name("None"), "BitOr", Name("int"), 0),
                 "BitOr", Name("None"), 0), Nothing)
    /\ out = AnnAssign(BinaryOperation(Name("None"), "BitOr",
                 BinaryOperation(Name("int"), "BitOr", Name("None"), 0), 0),
                 Nothing)

====
